---------------------------- MODULE Spec2Model ----------------------------
(***************************************************************************)
(* A model of src/parseJSON.ts: the lenient JSON extractor parseJSON and   *)
(* its helpers looksLikeJSON, normalizeToJSON, extractBalanced,            *)
(* extractAndParse and findByKey.                                          *)
(*                                                                         *)
(* A text is a sequence of one-character strings.  A decoded value is a    *)
(* pair <<tag, payload>>:                                                  *)
(*   <<"null", <<>>>>          null                                        *)
(*   <<"bool", b>>             true / false                                *)
(*   <<"num",  n>>             a number                                    *)
(*   <<"str",  chars>>         a string (its characters, unescaped)        *)
(*   <<"arr",  <<v1, ..>>>>    an array                                    *)
(*   <<"obj",  <<<<k1,v1>>, ..>>>>  an object, members in creation order   *)
(* A call that raises is the result Thrown.                                *)
(***************************************************************************)
EXTENDS Integers, Sequences, FiniteSets, TLC

VARIABLES
    pc,       \* "call" before an operation ran, "done" after it returned or raised
    op,       \* the operation that ran ("none" before)
    rawData,  \* the input: <<"string", text>> or <<"object", value>>
    nodeKey,  \* the key argument: Str(text), or Undefined
    literal,  \* the literal an assignment-form input embeds (<<>> otherwise)
    start,    \* extractBalanced: the start index (1-based; 0-based in the source)
    openArg,  \* extractBalanced: the opening delimiter
    scanOut,  \* normalizeToJSON: its local out when the character scan ends (line 90)
    ret       \* what the operation returned; Thrown when it raised

vars == <<pc, op, rawData, nodeKey, literal, start, openArg, scanOut, ret>>

\* ------------------------------------------------------------- characters

DQ == "\""
SQ == "'"
BS == "\\"

Lower == {"a","b","c","d","e","f","g","h","i","j","k","l","m",
          "n","o","p","q","r","s","t","u","v","w","x","y","z"}
Upper == {"A","B","C","D","E","F","G","H","I","J","K","L","M",
          "N","O","P","Q","R","S","T","U","V","W","X","Y","Z"}
Digit == {"0","1","2","3","4","5","6","7","8","9"}

\* \s of a JavaScript regular expression, and what trim() / trimStart() strip
\* (the members a text of this model can hold).
WhiteSpace == {" ", "\t", "\n", "\r", "\f"}

\* [A-Za-z_$] and [A-Za-z0-9_$] of the key-quoting pattern.
IdentStart == Lower \cup Upper \cup {"_", "$"}
IdentChar  == IdentStart \cup Digit

Undefined == <<"undefined", <<>>>>
Null      == <<"null", <<>>>>
Thrown    == <<"throw", <<"SyntaxError">>>>
EmptyArr  == <<"arr", <<>>>>

Tag(v)     == v[1]
Payload(v) == v[2]

Bool(b) == <<"bool", b>>
Num(n)  == <<"num", n>>
Str(cs) == <<"str", cs>>
Arr(vs) == <<"arr", vs>>
Obj(ms) == <<"obj", ms>>

\* ------------------------------------------------------------ text helpers

\* text.slice(from, to) with 1-based inclusive ends; empty when to < from.
Slice(s, from, to) == IF to < from THEN <<>> ELSE SubSeq(s, from, to)

StartsWith(s, p) == Len(s) >= Len(p) /\ SubSeq(s, 1, Len(p)) = p

\* s.indexOf(c): the first 1-based index of c, 0 when absent (-1 in the source).
RECURSIVE IndexFrom(_, _, _)
IndexFrom(s, c, i) ==
    IF i > Len(s) THEN 0
    ELSE IF s[i] = c THEN i
    ELSE IndexFrom(s, c, i + 1)

IndexOf(s, c) == IndexFrom(s, c, 1)

RECURSIVE TrimStart(_)
TrimStart(s) ==
    IF s # <<>> /\ Head(s) \in WhiteSpace THEN TrimStart(Tail(s)) ELSE s

RECURSIVE TrimEnd(_)
TrimEnd(s) ==
    IF s # <<>> /\ s[Len(s)] \in WhiteSpace
    THEN TrimEnd(SubSeq(s, 1, Len(s) - 1)) ELSE s

Trim(s) == TrimEnd(TrimStart(s))

\* The first index >= i that holds no white space (Len(s) + 1 at the end).
RECURSIVE SkipSpace(_, _)
SkipSpace(s, i) ==
    IF i <= Len(s) /\ s[i] \in WhiteSpace THEN SkipSpace(s, i + 1) ELSE i

\* ------------------------------------------------------------- Classifier

\* /^-?\d/.test(t)
StartsLikeNumber(t) ==
    \/ Len(t) >= 1 /\ t[1] \in Digit
    \/ Len(t) >= 2 /\ t[1] = "-" /\ t[2] \in Digit

T_true  == <<"t","r","u","e">>
T_false == <<"f","a","l","s","e">>
T_null  == <<"n","u","l","l">>

\* A plausible slip: the three literals tested with startsWith like the brackets.
looksLikeJSON_prefix(s) ==
    LET t == TrimStart(s) IN
    \/ StartsWith(t, <<"{">>) \/ StartsWith(t, <<"[">>) \/ StartsWith(t, <<DQ>>)
    \/ StartsWith(t, T_true) \/ StartsWith(t, T_false) \/ StartsWith(t, T_null)
    \/ StartsLikeNumber(t)

looksLikeJSON(s) ==
    LET t == TrimStart(s) IN
    \/ StartsWith(t, <<"{">>) \/ StartsWith(t, <<"[">>) \/ StartsWith(t, <<DQ>>)
    \/ t = T_true \/ t = T_false \/ t = T_null
    \/ StartsLikeNumber(t)

\* ------------------------------------------------------------- Normalizer

\* Inside a single-quoted run (lines 42-67); i is the next index to read.
RECURSIVE ScanSingle(_, _, _)
\* Inside a double-quoted run (lines 72-85).
RECURSIVE ScanDouble(_, _, _)
\* Outside quotes (lines 35-90).
RECURSIVE ScanNormal(_, _, _)

\* chars[i + 1] ?? "": the next character as a text, empty past the end.
NextOrEmpty(chars, i) == IF i + 1 <= Len(chars) THEN <<chars[i + 1]>> ELSE <<>>

\* A slip: a bare '"' inside a single-quoted run copied as it is.
ScanSingle_bareQuote(chars, i, out) ==
    IF i > Len(chars) THEN out
    ELSE LET c == chars[i] IN
         IF c = BS THEN
              LET next == NextOrEmpty(chars, i) IN
              IF next = <<SQ>> THEN ScanSingle(chars, i + 2, out \o <<SQ>>)
              ELSE IF next = <<DQ>> THEN ScanSingle(chars, i + 2, out \o <<BS, DQ>>)
              ELSE ScanSingle(chars, i + 2, out \o <<c>> \o next)
         ELSE IF c = SQ THEN ScanNormal(chars, i + 1, out \o <<DQ>>)
         ELSE ScanSingle(chars, i + 1, out \o <<c>>)

ScanSingle(chars, i, out) ==
    IF i > Len(chars) THEN out
    ELSE LET c == chars[i] IN
         IF c = BS THEN
              LET next == NextOrEmpty(chars, i) IN
              IF next = <<SQ>> THEN ScanSingle(chars, i + 2, out \o <<SQ>>)
              ELSE IF next = <<DQ>> THEN ScanSingle(chars, i + 2, out \o <<BS, DQ>>)
              ELSE ScanSingle(chars, i + 2, out \o <<c>> \o next)
         ELSE IF c = DQ THEN ScanSingle(chars, i + 1, out \o <<BS, DQ>>)
         ELSE IF c = SQ THEN ScanNormal(chars, i + 1, out \o <<DQ>>)
         ELSE ScanSingle(chars, i + 1, out \o <<c>>)

ScanDouble(chars, i, out) ==
    IF i > Len(chars) THEN out
    ELSE LET c == chars[i] IN
         IF c = BS THEN ScanDouble(chars, i + 2, out \o <<c>> \o NextOrEmpty(chars, i))
         ELSE IF c = DQ THEN ScanNormal(chars, i + 1, out \o <<DQ>>)
         ELSE ScanDouble(chars, i + 1, out \o <<c>>)

ScanNormal(chars, i, out) ==
    IF i > Len(chars) THEN out
    ELSE LET ch == chars[i] IN
         IF ch = SQ THEN ScanSingle(chars, i + 1, out \o <<DQ>>)
         ELSE IF ch = DQ THEN ScanDouble(chars, i + 1, out \o <<DQ>>)
         ELSE ScanNormal(chars, i + 1, out \o <<ch>>)

\* The character scan alone (lines 31-90).
quoteScan(raw) == ScanNormal(raw, 1, <<>>)

\* The end of the longest run of identifier characters starting at i
\* ([A-Za-z0-9_$]*, greedy): the index after the run.
RECURSIVE SkipIdent(_, _)
SkipIdent(s, i) ==
    IF i <= Len(s) /\ s[i] \in IdentChar THEN SkipIdent(s, i + 1) ELSE i

\* A match of /([{,]\s*)([A-Za-z_$][A-Za-z0-9_$]*)(\s*:)/ at index p:
\* <<k, e, c>> with the identifier at k..e-1 and the ':' at c, or <<>>.
\* Each greedy run is followed by a character it cannot hold, so the
\* greedy choice is the only match.
KeyMatch(s, p) ==
    IF ~(p <= Len(s) /\ s[p] \in {"{", ","}) THEN <<>>
    ELSE LET k == SkipSpace(s, p + 1) IN
         IF ~(k <= Len(s) /\ s[k] \in IdentStart) THEN <<>>
         ELSE LET e == SkipIdent(s, k + 1)
                  c == SkipSpace(s, e)
              IN IF c <= Len(s) /\ s[c] = ":" THEN <<k, e, c>> ELSE <<>>

\* out.replace(<key pattern>, '$1"$2"$3') with the g flag: leftmost matches,
\* the search resuming after each match.
RECURSIVE QuoteKeysFrom(_, _, _)
QuoteKeysFrom(s, p, out) ==
    IF p > Len(s) THEN out
    ELSE LET m == KeyMatch(s, p) IN
         IF m = <<>> THEN QuoteKeysFrom(s, p + 1, out \o <<s[p]>>)
         ELSE QuoteKeysFrom(s, m[3] + 1,
                  out \o Slice(s, p, m[1] - 1) \o <<DQ>> \o Slice(s, m[1], m[2] - 1)
                      \o <<DQ>> \o Slice(s, m[2], m[3]))

quoteKeys(s) == QuoteKeysFrom(s, 1, <<>>)

\* A match of /,(\s*[}\]])/ at index p: the index of the bracket, or 0.
CommaMatch(s, p) ==
    IF ~(p <= Len(s) /\ s[p] = ",") THEN 0
    ELSE LET b == SkipSpace(s, p + 1) IN
         IF b <= Len(s) /\ s[b] \in {"}", "]"} THEN b ELSE 0

\* out.replace(/,(\s*[}\]])/g, "$1")
RECURSIVE DropCommasFrom(_, _, _)
DropCommasFrom(s, p, out) ==
    IF p > Len(s) THEN out
    ELSE LET b == CommaMatch(s, p) IN
         IF b = 0 THEN DropCommasFrom(s, p + 1, out \o <<s[p]>>)
         ELSE DropCommasFrom(s, b + 1, out \o Slice(s, p + 1, b))

dropTrailingCommas(s) == DropCommasFrom(s, 1, <<>>)

normalizeToJSON(raw) == dropTrailingCommas(quoteKeys(quoteScan(raw)))

\* ------------------------------------------------------ BalancedExtractor

\* The loop of extractBalanced from index i (lines 115-129) with its three
\* locals; from is the start index.  Null when the text ends first.
RECURSIVE BalancedLoop(_, _, _, _, _, _, _, _)
BalancedLoop(text, from, open, close, i, depth, inString, escape) ==
    IF i > Len(text) THEN Null
    ELSE LET ch == text[i] IN
         IF escape THEN BalancedLoop(text, from, open, close, i + 1, depth, inString, FALSE)
         ELSE IF ch = BS THEN BalancedLoop(text, from, open, close, i + 1, depth, inString, TRUE)
         ELSE IF ch = DQ /\ ~inString
              THEN BalancedLoop(text, from, open, close, i + 1, depth, TRUE, FALSE)
         ELSE IF ch = DQ /\ inString
              THEN BalancedLoop(text, from, open, close, i + 1, depth, FALSE, FALSE)
         ELSE IF inString
              THEN BalancedLoop(text, from, open, close, i + 1, depth, inString, FALSE)
         ELSE IF ch = open
              THEN BalancedLoop(text, from, open, close, i + 1, depth + 1, inString, FALSE)
         ELSE IF ch = close
              THEN IF depth - 1 = 0 THEN Str(Slice(text, from, i))
                   ELSE BalancedLoop(text, from, open, close, i + 1, depth - 1, inString, FALSE)
         ELSE BalancedLoop(text, from, open, close, i + 1, depth, inString, FALSE)

\* A slip: the depth starts at 1 for the opener at start, which the loop
\* counts again.
extractBalanced_depthOne(text, from, open, close) ==
    BalancedLoop(text, from, open, close, from, 1, FALSE, FALSE)

\* extractBalanced(text, start, open, close): Str(block) or Null.
extractBalanced(text, from, open, close) ==
    BalancedLoop(text, from, open, close, from, 0, FALSE, FALSE)

\* ---------------------------------------------------------- strict decoder

\* JSON.parse, the ECMAScript decoder the source calls at lines 143, 158, 171.
JsonSpace == {" ", "\t", "\n", "\r"}
\* Characters a JSON string may not hold unescaped (U+0000..U+001F).
Control == {"\t", "\n", "\r", "\f"}
Hex == Digit \cup {"a","b","c","d","e","f","A","B","C","D","E","F"}

Fail == [ok |-> FALSE, val |-> Null, pos |-> 0]
Good(v, p) == [ok |-> TRUE, val |-> v, pos |-> p]

RECURSIVE SkipJsonSpace(_, _)
SkipJsonSpace(s, i) ==
    IF i <= Len(s) /\ s[i] \in JsonSpace THEN SkipJsonSpace(s, i + 1) ELSE i

\* The index after the longest run of digits starting at i.
RECURSIVE SkipDigits(_, _)
SkipDigits(s, i) ==
    IF i <= Len(s) /\ s[i] \in Digit THEN SkipDigits(s, i + 1) ELSE i

DigitVal(c) == CHOOSE n \in 0..9 : <<"0","1","2","3","4","5","6","7","8","9">>[n + 1] = c

\* The value of a short run of digits.
RECURSIVE DigitsValue(_)
DigitsValue(ds) ==
    IF ds = <<>> THEN 0
    ELSE 10 * DigitsValue(SubSeq(ds, 1, Len(ds) - 1)) + DigitVal(ds[Len(ds)])

\* The character an escape \c of a JSON string stands for (<<>>: none).
Unescape(c) ==
    CASE c = DQ  -> <<DQ>>
      [] c = BS  -> <<BS>>
      [] c = "/" -> <<"/">>
      [] c = "b" -> <<"<U+0008>">>
      [] c = "f" -> <<"\f">>
      [] c = "n" -> <<"\n">>
      [] c = "r" -> <<"\r">>
      [] c = "t" -> <<"\t">>
      [] OTHER   -> <<>>

\* The body of a string from index i (after the opening quote), acc its
\* characters so far.  A \uXXXX escape decodes to the symbol of its code point.
RECURSIVE DecodeString(_, _, _)
DecodeString(s, i, acc) ==
    IF i > Len(s) THEN Fail
    ELSE LET c == s[i] IN
         IF c = DQ THEN Good(Str(acc), i + 1)
         ELSE IF c \in Control THEN Fail
         ELSE IF c # BS THEN DecodeString(s, i + 1, acc \o <<c>>)
         ELSE IF i + 1 > Len(s) THEN Fail
         ELSE IF s[i + 1] = "u"
              THEN IF i + 5 <= Len(s) /\ \A k \in 2..5 : s[i + k] \in Hex
                   THEN DecodeString(s, i + 6, acc \o <<"<U+" \o s[i + 2] \o s[i + 3]
                                                       \o s[i + 4] \o s[i + 5] \o ">">>)
                   ELSE Fail
         ELSE IF Unescape(s[i + 1]) = <<>> THEN Fail
         ELSE DecodeString(s, i + 2, acc \o Unescape(s[i + 1]))

\* -? (0 | [1-9][0-9]*) (\.[0-9]+)? ([eE][+-]?[0-9]+)?  from index i.
\* An integer decodes to <<n>>; a number with a fraction or an exponent to
\* <<n, fraction digits, exponent text>>.
DecodeNumber(s, i) ==
    LET neg == i <= Len(s) /\ s[i] = "-"
        d   == IF neg THEN i + 1 ELSE i
    IN IF ~(d <= Len(s) /\ s[d] \in Digit) THEN Fail
       ELSE LET e    == IF s[d] = "0" THEN d + 1 ELSE SkipDigits(s, d)
                n    == DigitsValue(Slice(s, d, e - 1))
                int  == IF neg THEN 0 - n ELSE n
                fr   == e <= Len(s) /\ s[e] = "."
                f    == IF fr THEN SkipDigits(s, e + 1) ELSE e
                ex   == f <= Len(s) /\ s[f] \in {"e", "E"}
                sg   == IF ex /\ f + 1 <= Len(s) /\ s[f + 1] \in {"+", "-"}
                        THEN f + 2 ELSE f + 1
                x    == IF ex THEN SkipDigits(s, sg) ELSE f
            IN IF fr /\ f = e + 1 THEN Fail
               ELSE IF ex /\ x = sg THEN Fail
               ELSE IF ~fr /\ ~ex THEN Good(Num(<<int>>), e)
               ELSE Good(Num(<<int, Slice(s, e + 1, f - 1), Slice(s, f + 1, x - 1)>>), x)

\* Object creation order: a repeated key keeps its first place and takes
\* the last value.
RECURSIVE PutMember(_, _, _)
PutMember(ms, k, v) ==
    IF ms = <<>> THEN <<<<k, v>>>>
    ELSE IF Head(ms)[1] = k THEN <<<<k, v>>>> \o Tail(ms)
    ELSE <<Head(ms)>> \o PutMember(Tail(ms), k, v)

RECURSIVE DecodeValue(_, _)
RECURSIVE DecodeElements(_, _, _)
RECURSIVE DecodeMembers(_, _, _)

\* The elements of an array, the next one starting at or after i.
DecodeElements(s, i, acc) ==
    LET r == DecodeValue(s, i) IN
    IF ~r.ok THEN Fail
    ELSE LET j == SkipJsonSpace(s, r.pos) IN
         IF j > Len(s) THEN Fail
         ELSE IF s[j] = "," THEN DecodeElements(s, j + 1, acc \o <<r.val>>)
         ELSE IF s[j] = "]" THEN Good(Arr(acc \o <<r.val>>), j + 1)
         ELSE Fail

\* The members of an object, the next key starting at or after i.
DecodeMembers(s, i, acc) ==
    LET k == SkipJsonSpace(s, i) IN
    IF ~(k <= Len(s) /\ s[k] = DQ) THEN Fail
    ELSE LET key == DecodeString(s, k + 1, <<>>) IN
         IF ~key.ok THEN Fail
         ELSE LET c == SkipJsonSpace(s, key.pos) IN
              IF ~(c <= Len(s) /\ s[c] = ":") THEN Fail
              ELSE LET r == DecodeValue(s, c + 1) IN
                   IF ~r.ok THEN Fail
                   ELSE LET j  == SkipJsonSpace(s, r.pos)
                            ms == PutMember(acc, Payload(key.val), r.val)
                        IN IF j > Len(s) THEN Fail
                           ELSE IF s[j] = "," THEN DecodeMembers(s, j + 1, ms)
                           ELSE IF s[j] = "}" THEN Good(Obj(ms), j + 1)
                           ELSE Fail

\* One JSON value starting at or after i (leading white space skipped).
DecodeValue(s, i0) ==
    LET i == SkipJsonSpace(s, i0) IN
    IF i > Len(s) THEN Fail
    ELSE LET c == s[i] IN
         IF c = "{" THEN
              LET j == SkipJsonSpace(s, i + 1) IN
              IF j <= Len(s) /\ s[j] = "}" THEN Good(Obj(<<>>), j + 1)
              ELSE DecodeMembers(s, i + 1, <<>>)
         ELSE IF c = "[" THEN
              LET j == SkipJsonSpace(s, i + 1) IN
              IF j <= Len(s) /\ s[j] = "]" THEN Good(Arr(<<>>), j + 1)
              ELSE DecodeElements(s, i + 1, <<>>)
         ELSE IF c = DQ THEN DecodeString(s, i + 1, <<>>)
         ELSE IF c = "-" \/ c \in Digit THEN DecodeNumber(s, i)
         ELSE IF StartsWith(Slice(s, i, Len(s)), T_true) THEN Good(Bool(TRUE), i + 4)
         ELSE IF StartsWith(Slice(s, i, Len(s)), T_false) THEN Good(Bool(FALSE), i + 5)
         ELSE IF StartsWith(Slice(s, i, Len(s)), T_null) THEN Good(Null, i + 4)
         ELSE Fail

\* JSON.parse(s): the decoded value, or Thrown (a SyntaxError).
JSONparse(s) ==
    LET r == DecodeValue(s, 1) IN
    IF r.ok /\ SkipJsonSpace(s, r.pos) = Len(s) + 1 THEN r.val ELSE Thrown

\* ------------------------------------------------------ ExtractionStrategy

\* Strategy 2 (lines 148-162): the balanced block after the first '=',
\* Str(block), or Null when there is none.
assignmentBlock(trimmed) ==
    LET eqIdx == IndexOf(trimmed, "=") IN
    IF eqIdx = 0 THEN Null
    ELSE LET jsonStart == SkipSpace(trimmed, eqIdx + 1) IN
         IF jsonStart <= Len(trimmed) /\ trimmed[jsonStart] \in {"{", "["}
         THEN LET opener == trimmed[jsonStart]
                  closer == IF opener = "{" THEN "}" ELSE "]"
              IN extractBalanced(trimmed, jsonStart, opener, closer)
         ELSE Null

\* One round of the loop of strategy 3 (lines 166-168): the balanced block
\* at the first occurrence of open, or Null.
firstBlock(trimmed, open, close) ==
    LET idx == IndexOf(trimmed, open) IN
    IF idx = 0 THEN Null ELSE extractBalanced(trimmed, idx, open, close)

\* A slip: the pairs of strategy 3 listed with '[' first.
bracketBlock_arrayFirst(trimmed) ==
    IF firstBlock(trimmed, "[", "]") # Null THEN firstBlock(trimmed, "[", "]")
    ELSE firstBlock(trimmed, "{", "}")

\* Strategy 3 (lines 165-175): '{' is tried before '['.
bracketBlock(trimmed) ==
    IF firstBlock(trimmed, "{", "}") # Null THEN firstBlock(trimmed, "{", "}")
    ELSE firstBlock(trimmed, "[", "]")

\* JSON.parse inside a try/catch that moves on to the next strategy.
OrNull(v) == IF v = Thrown THEN Null ELSE v

\* A slip: decode failures are caught, each strategy falling through to the
\* next one and the function to its final return null.
extractAndParse_swallow(raw) ==
    LET trimmed == Trim(raw)
        s1 == IF looksLikeJSON(trimmed)
              THEN OrNull(JSONparse(normalizeToJSON(trimmed))) ELSE Null
        s2 == IF assignmentBlock(trimmed) # Null
              THEN OrNull(JSONparse(normalizeToJSON(Payload(assignmentBlock(trimmed)))))
              ELSE Null
        s3 == IF bracketBlock(trimmed) # Null
              THEN OrNull(JSONparse(normalizeToJSON(Payload(bracketBlock(trimmed)))))
              ELSE Null
    IN IF s1 # Null THEN s1 ELSE IF s2 # Null THEN s2 ELSE s3

\* A slip: a last resort that hands the whole text to JSON.parse when no
\* strategy found a block.
extractAndParse_lastResort(raw) ==
    LET trimmed == Trim(raw) IN
    IF looksLikeJSON(trimmed) THEN JSONparse(normalizeToJSON(trimmed))
    ELSE IF assignmentBlock(trimmed) # Null
         THEN JSONparse(normalizeToJSON(Payload(assignmentBlock(trimmed))))
    ELSE IF bracketBlock(trimmed) # Null
         THEN JSONparse(normalizeToJSON(Payload(bracketBlock(trimmed))))
    ELSE JSONparse(normalizeToJSON(trimmed))

\* extractAndParse(raw): the decoded value, Null when no strategy finds a
\* candidate, Thrown when JSON.parse raises (no try/catch encloses it).
extractAndParse(raw) ==
    LET trimmed == Trim(raw) IN
    IF looksLikeJSON(trimmed) THEN JSONparse(normalizeToJSON(trimmed))
    ELSE IF assignmentBlock(trimmed) # Null
         THEN JSONparse(normalizeToJSON(Payload(assignmentBlock(trimmed))))
    ELSE IF bracketBlock(trimmed) # Null
         THEN JSONparse(normalizeToJSON(Payload(bracketBlock(trimmed))))
    ELSE Null

\* --------------------------------------------------------------- KeySearch

\* An array index of ECMAScript: a canonical numeric string below 2^32 - 1.
MaxIndexText == <<"4","2","9","4","9","6","7","2","9","4">>

\* a < b for two runs of digits without leading zeros.
RECURSIVE DigitsLess(_, _)
DigitsLess(a, b) ==
    IF Len(a) # Len(b) THEN Len(a) < Len(b)
    ELSE IF a = <<>> THEN FALSE
    ELSE IF Head(a) # Head(b) THEN DigitVal(Head(a)) < DigitVal(Head(b))
    ELSE DigitsLess(Tail(a), Tail(b))

IsArrayIndex(k) ==
    /\ k # <<>>
    /\ \A i \in 1..Len(k) : k[i] \in Digit
    /\ (k[1] # "0" \/ Len(k) = 1)
    /\ (k = MaxIndexText \/ DigitsLess(k, MaxIndexText))

\* The keys of members ms in creation order.
MemberKeys(ms) == [i \in 1..Len(ms) |-> ms[i][1]]

\* The array-index keys of a set, ascending.
RECURSIVE SortIndexKeys(_)
SortIndexKeys(S) ==
    IF S = {} THEN <<>>
    ELSE LET m == CHOOSE k \in S : \A o \in S : o = k \/ DigitsLess(k, o)
         IN <<m>> \o SortIndexKeys(S \ {m})

\* Object.keys(obj) (line 193): OrdinaryOwnPropertyKeys lists the array-index
\* keys in ascending numeric order, then the other keys in creation order.
ObjectKeys(ms) ==
    LET keys  == MemberKeys(ms)
        NotIdx(k) == ~IsArrayIndex(k)
    IN SortIndexKeys({keys[i] : i \in {j \in 1..Len(keys) : IsArrayIndex(keys[j])}})
       \o SelectSeq(keys, NotIdx)

\* obj[k]
Member(ms, k) == ms[CHOOSE i \in 1..Len(ms) : ms[i][1] = k][2]

\* Object.prototype.hasOwnProperty.call(obj, key)
hasOwnProperty(ms, key) == \E i \in 1..Len(ms) : ms[i][1] = key

RECURSIVE findByKey(_, _, _)
RECURSIVE FindInItems(_, _, _, _)
RECURSIVE FindInMembers(_, _, _, _)

\* for (const item of node) findByKey(item, key, results)  (line 187)
FindInItems(items, i, key, results) ==
    IF i > Len(items) THEN results
    ELSE FindInItems(items, i + 1, key, findByKey(items[i], key, results))

\* for (const k of Object.keys(obj)) findByKey(obj[k], key, results)  (lines 193-195)
FindInMembers(ms, ks, key, results) ==
    IF ks = <<>> THEN results
    ELSE FindInMembers(ms, Tail(ks), key, findByKey(Member(ms, Head(ks)), key, results))

\* findByKey(node, key, results): results after the call.
findByKey(node, key, results) ==
    IF Tag(node) = "arr" THEN FindInItems(Payload(node), 1, key, results)
    ELSE IF Tag(node) = "obj"
         THEN FindInMembers(Payload(node), ObjectKeys(Payload(node)), key,
                            IF hasOwnProperty(Payload(node), key)
                            THEN Append(results, node) ELSE results)
    ELSE results

\* -------------------------------------------------------------- Public API

\* Lines 215-221: the parsed value of rawData, Thrown when the decoder raises.
parsedOf(raw) ==
    IF raw[1] = "object" THEN raw[2] ELSE extractAndParse(Trim(raw[2]))

\* A slip: the matches are returned as a collection whatever their number.
resultOf_alwaysCollection(parsed, key) ==
    IF parsed = Thrown THEN Thrown
    ELSE IF key = Undefined THEN parsed
    ELSE IF parsed = Null THEN EmptyArr
    ELSE Arr(findByKey(parsed, Payload(key), <<>>))

\* Lines 223-231: what parseJSON returns for a parsed value.
resultOf(parsed, key) ==
    IF parsed = Thrown THEN Thrown
    ELSE IF key = Undefined THEN parsed
    ELSE IF parsed = Null THEN EmptyArr
    ELSE LET results == findByKey(parsed, Payload(key), <<>>) IN
         IF Len(results) = 0 THEN EmptyArr
         ELSE IF Len(results) = 1 THEN results[1]
         ELSE Arr(results)

parseJSON(raw, key) == resultOf(parsedOf(raw), key)

\* ------------------------------------------------------------ the machine

NoRet == <<"none", <<>>>>

Text(t)   == <<"string", t>>
Object(v) == <<"object", v>>

\* All texts of at most n characters of alphabet A.
TextsUpTo(A, n) == UNION {[1..k -> A] : k \in 0..n}

\* A call is set up: the inputs are chosen, nothing ran yet.
Setup(inputs, keys) ==
    /\ pc = "call"
    /\ op = "none"
    /\ rawData \in inputs
    /\ nodeKey \in keys
    /\ literal = <<>>
    /\ start = 0
    /\ openArg = ""
    /\ scanOut = <<>>
    /\ ret = NoRet

\* parseJSON(rawData, nodeKey)
ParseJSON ==
    /\ pc = "call"
    /\ pc' = "done"
    /\ op' = "parseJSON"
    /\ ret' = parseJSON(rawData, nodeKey)
    /\ UNCHANGED <<rawData, nodeKey, literal, start, openArg, scanOut>>

\* extractAndParse(rawData) on a text
ExtractAndParse ==
    /\ pc = "call"
    /\ rawData[1] = "string"
    /\ pc' = "done"
    /\ op' = "extractAndParse"
    /\ ret' = extractAndParse(rawData[2])
    /\ UNCHANGED <<rawData, nodeKey, literal, start, openArg, scanOut>>

\* ---- texts with and without an extractable block

MaxBody == 4

BodyChars == {"{", "}", "[", "]", DQ, "a"}

\* What precedes the body: nothing, prose, an assignment.
Leads == {<<>>, <<"a">>, <<"a", " ">>, <<"a", "=">>, <<"a", "=", " ">>, <<"=">>}

\* The examples of the specification's testable properties, and an
\* assignment with nested owners of the key "a".
Samples ==
    {\* {'a': 'b'}
     <<"{", SQ, "a", SQ, ":", " ", SQ, "b", SQ, "}">>,
     \* {a: 1, b: 2}
     <<"{", "a", ":", " ", "1", ",", " ", "b", ":", " ", "2", "}">>,
     \* [1, 2, 3,]
     <<"[", "1", ",", " ", "2", ",", " ", "3", ",", "]">>,
     \* {"a":1,}
     <<"{", DQ, "a", DQ, ":", "1", ",", "}">>,
     \* var x = {"a": 1}
     <<"v", "a", "r", " ", "x", " ", "=", " ", "{", DQ, "a", DQ, ":",
       " ", "1", "}">>,
     \* here is data: {"a": [1,2]} trailing text
     <<"h", "e", "r", "e", " ", "i", "s", " ", "d", "a", "t", "a", ":",
       " ", "{", DQ, "a", DQ, ":", " ", "[", "1", ",", "2", "]", "}",
       " ", "t", "r", "a", "i", "l", "i", "n", "g", " ", "t", "e", "x",
       "t">>,
     \* {"a": "x{y}z"}
     <<"{", DQ, "a", DQ, ":", " ", DQ, "x", "{", "y", "}", "z", DQ, "}">>,
     \* x = {a: {a: 1}, b: [{a: 2}]};
     <<"x", " ", "=", " ", "{", "a", ":", " ", "{", "a", ":", " ", "1",
       "}", ",", " ", "b", ":", " ", "[", "{", "a", ":", " ", "2", "}",
       "]", "}", ";">>}

\* A lead followed by any body of at most n characters.
ExtractionTexts(n) == {l \o b : l \in Leads, b \in TextsUpTo(BodyChars, n)}

Init == Setup({Text(t) : t \in ExtractionTexts(MaxBody) \cup Samples},
              {Undefined, Str(<<"a">>)})

Next == ParseJSON \/ ExtractAndParse

Spec == Init /\ [][Next]_vars

\* ------------------------------------------- balanced blocks, position-wise

\* What the claims say of a balanced block, stated on positions of the text
\* rather than by a scan.  All positions are from..Len(text).

Closer(c) == IF c = "{" THEN "}" ELSE "]"

Odd(n) == n % 2 = 1

Least(S) == CHOOSE x \in S : \A y \in S : x <= y

\* The backslashes that directly precede position j, back to from.
BackslashRun(text, from, j) ==
    Cardinality({k \in from..(j - 1) : \A m \in k..(j - 1) : text[m] = BS})

\* Position j is skipped: an unescaped backslash precedes it.
Escaped(text, from, j) == Odd(BackslashRun(text, from, j))

\* Position j holds an unescaped '"'.
QuoteAt(text, from, j) == text[j] = DQ /\ ~Escaped(text, from, j)

\* Position j lies inside a double-quoted string opened at or after from.
InsideString(text, from, j) ==
    Odd(Cardinality({k \in from..(j - 1) : QuoteAt(text, from, k)}))

\* Position j holds delimiter c and counts toward the depth.
Counted(text, from, j, c) ==
    /\ text[j] = c
    /\ ~Escaped(text, from, j)
    /\ ~InsideString(text, from, j)

DepthAfter(text, from, j, o, c) ==
    Cardinality({k \in from..j : Counted(text, from, k, o)})
      - Cardinality({k \in from..j : Counted(text, from, k, c)})

\* The block from position from through the first counted closer at which
\* the depth is back to zero; Null when there is none.
BalancedBlock(text, from, o, c) ==
    LET ends == {j \in from..Len(text) :
                    Counted(text, from, j, c) /\ DepthAfter(text, from, j, o, c) = 0}
    IN IF ends = {} THEN Null ELSE Str(Slice(text, from, Least(ends)))

\* ---- extractBalanced on its own

MaxBalanced == 5

BalancedChars == {"{", "}", "[", "]", DQ, BS}

ExtractBalanced ==
    /\ pc = "call"
    /\ pc' = "done"
    /\ op' = "extractBalanced"
    /\ ret' = extractBalanced(rawData[2], start, openArg, Closer(openArg))
    /\ UNCHANGED <<rawData, nodeKey, literal, start, openArg, scanOut>>

\* Every call the source makes has text[start] = open, open one of '{', '['.
InitBalanced ==
    /\ pc = "call"
    /\ op = "none"
    /\ rawData \in {Text(t) : t \in TextsUpTo(BalancedChars, MaxBalanced)}
    /\ nodeKey = Undefined
    /\ literal = <<>>
    /\ start \in 1..Len(rawData[2])
    /\ openArg \in {"{", "["}
    /\ rawData[2][start] = openArg
    /\ scanOut = <<>>
    /\ ret = NoRet

SpecBalanced == InitBalanced /\ [][ExtractBalanced]_vars

\* C7: extractBalanced returns the text from start through the first closing
\* delimiter at which the depth is back to zero, delimiters inside a
\* double-quoted string or after a backslash not counting; it returns null
\* when the text ends before that.
C7_BalancedBlock ==
    (pc = "done" /\ op = "extractBalanced")
        => ret = BalancedBlock(rawData[2], start, openArg, Closer(openArg))

\* C7's case: a closer inside a string is passed over and the block ends at
\* a later closer.
C7_Witness ==
    /\ pc = "done" /\ op = "extractBalanced"
    /\ ret # Null
    /\ \E j \in (start + 1)..(start + Len(Payload(ret)) - 2) :
          /\ rawData[2][j] = Closer(openArg)
          /\ InsideString(rawData[2], start, j)

\* --------------------------------------------- candidates, position-wise

\* The first position of character c in t, 0 when t holds none.
FirstPos(t, c) ==
    IF \E i \in 1..Len(t) : t[i] = c
    THEN Least({i \in 1..Len(t) : t[i] = c}) ELSE 0

\* The balanced block that starts at the first c of t, or Null.
BlockAtFirst(t, c) ==
    IF FirstPos(t, c) = 0 THEN Null
    ELSE BalancedBlock(t, FirstPos(t, c), c, Closer(c))

\* The balanced '{' or '[' block that follows the first '=' of t and the
\* white space after it, or Null.
BlockAfterAssign(t) ==
    LET e    == FirstPos(t, "=")
        rest == {j \in (e + 1)..Len(t) : t[j] \notin WhiteSpace}
    IN IF e = 0 \/ rest = {} THEN Null
       ELSE IF t[Least(rest)] \in {"{", "["}
            THEN BalancedBlock(t, Least(rest), t[Least(rest)], Closer(t[Least(rest)]))
       ELSE Null

\* The candidate the strategies locate in trimmed text t, in their order:
\* the whole text, the block after '=', the first '{' block, the first '[' block.
Candidate(t) ==
    IF looksLikeJSON(t) THEN Str(t)
    ELSE IF BlockAfterAssign(t) # Null THEN BlockAfterAssign(t)
    ELSE IF BlockAtFirst(t, "{") # Null THEN BlockAtFirst(t, "{")
    ELSE BlockAtFirst(t, "[")

\* What the strict decoder makes of a located candidate after normalization.
Decoded(block) == JSONparse(normalizeToJSON(Payload(block)))

Trimmed == Trim(rawData[2])

C3_AbsenceIsQuiet ==
    (/\ pc = "done" /\ op = "parseJSON" /\ rawData[1] = "string"
     /\ Candidate(Trimmed) = Null)
        => ret = IF nodeKey = Undefined THEN Null ELSE EmptyArr

\* C3's case: a keyed call on a text with an '=' and brackets, all of them
\* unbalanced.
C3_Witness ==
    /\ pc = "done" /\ op = "parseJSON" /\ nodeKey # Undefined
    /\ FirstPos(Trimmed, "=") # 0
    /\ FirstPos(Trimmed, "{") # 0
    /\ FirstPos(Trimmed, "[") # 0
    /\ Candidate(Trimmed) = Null
    /\ ret = EmptyArr

\* C8: for text the Classifier rejects and in which the assignment strategy
\* finds no block, extractAndParse decodes the balanced block at the first
\* '{' when there is one, and only otherwise the one at the first '['.
C8_ObjectBlockFirst ==
    (/\ pc = "done" /\ op = "extractAndParse"
     /\ ~looksLikeJSON(Trimmed)
     /\ BlockAfterAssign(Trimmed) = Null)
        => ret = IF BlockAtFirst(Trimmed, "{") # Null
                 THEN Decoded(BlockAtFirst(Trimmed, "{"))
                 ELSE IF BlockAtFirst(Trimmed, "[") # Null
                 THEN Decoded(BlockAtFirst(Trimmed, "["))
                 ELSE Null

\* C8's case: prose, then an array that encloses an object; both blocks are
\* balanced, the '[' comes first, and the object is what is decoded.
C8_Witness ==
    /\ pc = "done" /\ op = "extractAndParse"
    /\ ~looksLikeJSON(Trimmed)
    /\ BlockAfterAssign(Trimmed) = Null
    /\ BlockAtFirst(Trimmed, "{") # Null
    /\ BlockAtFirst(Trimmed, "[") # Null
    /\ 1 < FirstPos(Trimmed, "[")
    /\ FirstPos(Trimmed, "[") < FirstPos(Trimmed, "{")
    /\ ret = Decoded(BlockAtFirst(Trimmed, "{"))
    /\ ret # Decoded(BlockAtFirst(Trimmed, "["))

\* ---- strict JSON texts

MaxStrict == 5

StrictChars == {"[", "]", "{", "}", DQ, ",", ":", "a", " "}

\* Every text of at most n characters that the strict decoder accepts as it
\* stands.
StrictTexts(n) == {t \in TextsUpTo(StrictChars, n) : JSONparse(t) # Thrown}

InitStrict == Setup({Text(t) : t \in StrictTexts(MaxStrict)}, {Undefined})

SpecStrict == InitStrict /\ [][ParseJSON]_vars

\* C1: for valid strict-JSON text, parseJSON without a key returns what the
\* strict decoder returns for the text itself.
C1_StrictTextUnchanged ==
    (pc = "done" /\ op = "parseJSON" /\ nodeKey = Undefined)
        => ret = JSONparse(rawData[2])

\* ---- assignment-form texts

MaxLiteral == 5

LiteralChars == {"[", "]", "{", "}", DQ, SQ, "a"}

\* The object and array literals of at most n characters that parseJSON
\* decodes when given bare.
Literals(n) ==
    {l \in TextsUpTo(LiteralChars, n) :
        /\ l # <<>>
        /\ l[1] \in {"{", "["}
        /\ parseJSON(Text(l), Undefined) # Thrown}

\* An identifier, '=' and optional white space.
AssignPrefixes == {<<"x", "=">>, <<"x", " ", "=", " ">>,
                   <<"v", "a", "r", " ", "x", " ", "=", " ">>}

\* Optional trailing text.
AssignSuffixes == {<<>>, <<";">>, <<" ", "a">>}

InitAssign ==
    /\ pc = "call"
    /\ op = "none"
    /\ literal \in Literals(MaxLiteral)
    /\ rawData \in {Text(p \o literal \o x) : p \in AssignPrefixes, x \in AssignSuffixes}
    /\ nodeKey = Undefined
    /\ start = 0
    /\ openArg = ""
    /\ scanOut = <<>>
    /\ ret = NoRet

SpecAssign == InitAssign /\ [][ParseJSON]_vars

\* C6: a literal that parseJSON decodes to V when given bare is decoded to
\* the same V from the assignment form that embeds it.
C6_AssignmentSameAsBare ==
    (pc = "done" /\ op = "parseJSON")
        => ret = parseJSON(Text(literal), Undefined)

\* ---- decoded value trees

MaxNodes == 5

TreeScalars == {Null, Num(<<1>>), Str(<<"k">>)}

\* "k" is an ordinary key, "1" an array-index key.
TreeKeys == {<<"k">>, <<"1">>}

\* The sequences of n distinct keys.
RECURSIVE KeySeqs(_)
KeySeqs(n) ==
    IF n = 0 THEN {<<>>}
    ELSE UNION {{<<k>> \o ks : ks \in {s \in KeySeqs(n - 1) : \A i \in 1..Len(s) : s[i] # k}}
                   : k \in TreeKeys}

\* The members with keys ks and values f, pairwise.
RECURSIVE Members(_, _)
Members(ks, f) ==
    IF ks = <<>> THEN <<>> ELSE <<<<Head(ks), Head(f)>>>> \o Members(Tail(ks), Tail(f))

\* A \cup B with A counted first, which keeps the union of large sets
\* cheap to evaluate.
Joined(A, B) == IF Cardinality(A) >= 0 THEN A \cup B ELSE B

\* The union of the sets S[1], .., S[n].
RECURSIVE JoinedAll(_, _)
JoinedAll(S, n) == IF n = 0 THEN {} ELSE Joined(JoinedAll(S, n - 1), S[n])

\* The arrays and objects over the forests FS: the array of each forest,
\* and the objects whose member values, in creation order, are its trees.
TreesOver(FS) ==
    JoinedAll([j \in 1..(Cardinality(TreeKeys) + 2) |->
                  IF j = 1 THEN {Arr(f) : f \in FS}
                  ELSE {Obj(Members(ks, f)) : ks \in KeySeqs(j - 2),
                                              f \in {g \in FS : Len(g) = j - 2}}],
              Cardinality(TreeKeys) + 2)

\* The value trees by number of nodes: T[k] holds the trees of k nodes and
\* F[m + 1] the sequences of trees with m nodes in all.  A tree of k nodes
\* is a scalar (k = 1) or an array or object over a forest of k - 1 nodes.
RECURSIVE TreeTable(_, _, _)
TreeTable(n, T, F) ==
    IF Len(T) >= n THEN T
    ELSE LET k  == Len(T) + 1
             Tk == Joined(TreesOver(F[k]), IF k = 1 THEN TreeScalars ELSE {})
             T2 == Append(T, Tk)
             Fk == JoinedAll([i \in 1..k |-> {<<t>> \o f : t \in T2[i], f \in F[k - i + 1]}], k)
         IN IF k = n THEN T2 ELSE TreeTable(n, T2, Append(F, Fk))

TreesUpTo(n) == JoinedAll(TreeTable(n, <<>>, <<{<<>>}>>), n)

\* The structured values of at most n nodes; parseJSON takes them as they
\* are (typeof "object").
Structures(n) == {v \in TreesUpTo(n) : Tag(v) \in {"arr", "obj"}}

\* findByKey(rawData, nodeKey, []) on a structured value: the results array.
FindByKey ==
    /\ pc = "call"
    /\ rawData[1] = "object"
    /\ nodeKey # Undefined
    /\ pc' = "done"
    /\ op' = "findByKey"
    /\ ret' = Arr(findByKey(rawData[2], Payload(nodeKey), <<>>))
    /\ UNCHANGED <<rawData, nodeKey, literal, start, openArg, scanOut>>

InitFind == Setup({Object(v) : v \in Structures(MaxNodes)}, {Str(<<"k">>)})

NextFind == FindByKey \/ ParseJSON

SpecFind == InitFind /\ [][NextFind]_vars

\* ---- the matches of a tree, path-wise

\* The children of a node in the order of the source structure: the
\* elements by index, the member values in creation order.
Children(v) ==
    IF Tag(v) = "arr" THEN Payload(v)
    ELSE IF Tag(v) = "obj" THEN [i \in 1..Len(Payload(v)) |-> Payload(v)[i][2]]
    ELSE <<>>

\* The paths (child positions from the root) of the nodes of v.
RECURSIVE Paths(_)
Paths(v) ==
    {<<>>} \cup UNION {{<<i>> \o p : p \in Paths(Children(v)[i])} : i \in 1..Len(Children(v))}

RECURSIVE NodeAt(_, _)
NodeAt(v, p) == IF p = <<>> THEN v ELSE NodeAt(Children(v)[Head(p)], Tail(p))

\* The paths of the mappings of v that own key themselves.
Owners(v, key) ==
    {p \in Paths(v) :
        /\ Tag(NodeAt(v, p)) = "obj"
        /\ \E i \in 1..Len(Payload(NodeAt(v, p))) : Payload(NodeAt(v, p))[i][1] = key}

\* p comes before q in pre-order: p is an ancestor of q, or p branches off
\* to an earlier child.
Before(p, q) ==
    \/ Len(p) < Len(q) /\ SubSeq(q, 1, Len(p)) = p
    \/ \E i \in 1..Len(p) :
          /\ i <= Len(q)
          /\ SubSeq(p, 1, i - 1) = SubSeq(q, 1, i - 1)
          /\ p[i] < q[i]

RECURSIVE InPreOrder(_)
InPreOrder(S) ==
    IF S = {} THEN <<>>
    ELSE LET f == CHOOSE p \in S : \A q \in S : q = p \/ Before(p, q)
         IN <<f>> \o InPreOrder(S \ {f})

\* The owning mappings of v in pre-order of the source structure.
PreOrderOwners(v, key) ==
    LET ps == InPreOrder(Owners(v, key)) IN [i \in 1..Len(ps) |-> NodeAt(v, ps[i])]

\* C5: findByKey collects exactly the mappings that own the key, each once,
\* in pre-order of the source structure (index order, creation order of the
\* members), an owner before the owners nested in it.
C5_PreOrderOfSource ==
    (pc = "done" /\ op = "findByKey")
        => ret = Arr(PreOrderOwners(rawData[2], Payload(nodeKey)))

\* How often x occurs in sequence s.
Occurrences(s, x) == Cardinality({i \in 1..Len(s) : s[i] = x})

\* C4: parseJSON(V, k) returns an empty collection when no mapping of V
\* owns k, the one owning mapping itself when there is exactly one, and a
\* collection of all of them, as long as their number, when there are more.
C4_ReturnShape ==
    (pc = "done" /\ op = "parseJSON" /\ rawData[1] = "object" /\ nodeKey # Undefined)
        => LET own == Owners(rawData[2], Payload(nodeKey))
               n   == Cardinality(own)
           IN /\ n = 0 => ret = EmptyArr
              /\ n = 1 => \E p \in own : ret = NodeAt(rawData[2], p)
              /\ n >= 2 =>
                    /\ Tag(ret) = "arr"
                    /\ Len(Payload(ret)) = n
                    /\ \A p \in own :
                          Occurrences(Payload(ret), NodeAt(rawData[2], p))
                            = Cardinality({q \in own :
                                  NodeAt(rawData[2], q) = NodeAt(rawData[2], p)})

\* C4's case: exactly one mapping owns the key, it sits below the root, and
\* it is returned bare.
C4_Witness ==
    /\ pc = "done" /\ op = "parseJSON" /\ rawData[1] = "object"
    /\ Cardinality(Owners(rawData[2], Payload(nodeKey))) = 1
    /\ <<>> \notin Owners(rawData[2], Payload(nodeKey))
    /\ Tag(ret) = "obj"
    /\ ret # rawData[2]

\* ---- the Classifier on its own

MaxTail == 2

ClassifierHeads ==
    {<<>>, <<"{">>, <<"[">>, <<DQ>>, <<SQ>>, T_true, T_false, T_null,
     <<"t", "r", "u">>, <<"n", "u", "l">>, <<"-">>, <<"1">>, <<"a">>, <<" ">>}

ClassifierChars == {"e", "l", "1", "-", " ", "{"}

\* A head followed by any tail of at most n characters.
ClassifierTexts(n) == {h \o t : h \in ClassifierHeads, t \in TextsUpTo(ClassifierChars, n)}

\* looksLikeJSON(rawData)
LooksLikeJSON ==
    /\ pc = "call"
    /\ pc' = "done"
    /\ op' = "looksLikeJSON"
    /\ ret' = Bool(looksLikeJSON(rawData[2]))
    /\ UNCHANGED <<rawData, nodeKey, literal, start, openArg, scanOut>>

InitClassifier == Setup({Text(t) : t \in ClassifierTexts(MaxTail)}, {Undefined})

SpecClassifier == InitClassifier /\ [][LooksLikeJSON]_vars

\* t begins with '{', '[' or '"'.
BeginsWithOpener(t) == \E c \in {"{", "[", DQ} : StartsWith(t, <<c>>)

\* t begins with a digit, or with '-' and a digit.
BeginsWithNumber(t) ==
    \E d \in Digit : StartsWith(t, <<d>>) \/ StartsWith(t, <<"-", d>>)

\* C10 as stated: on a trimmed string looksLikeJSON is true if and only if
\* the string begins with '{', '[', '"', the literal true, false or null, or
\* an optional '-' and a digit.
C10_BeginsWithLiteral ==
    (pc = "done" /\ op = "looksLikeJSON" /\ rawData[2] = Trim(rawData[2]))
        => (ret = Bool(TRUE)
              <=> \/ BeginsWithOpener(rawData[2])
                  \/ \E l \in {T_true, T_false, T_null} : StartsWith(rawData[2], l)
                  \/ BeginsWithNumber(rawData[2]))

\* C10 amended: the literals count only when they are the whole string.
C10_WholeLiteral ==
    (pc = "done" /\ op = "looksLikeJSON" /\ rawData[2] = Trim(rawData[2]))
        => (ret = Bool(TRUE)
              <=> \/ BeginsWithOpener(rawData[2])
                  \/ rawData[2] \in {T_true, T_false, T_null}
                  \/ BeginsWithNumber(rawData[2]))

\* C10's case: a trimmed string that begins with a literal and goes on.
C10_Witness ==
    /\ pc = "done" /\ op = "looksLikeJSON" /\ rawData[2] = Trim(rawData[2])
    /\ \E l \in {T_true, T_false, T_null} :
          StartsWith(rawData[2], l) /\ rawData[2] # l
    /\ ret = Bool(FALSE)

\* ---- the Normalizer on its own

MaxScan == 5

ScanChars == {SQ, DQ, BS, "a", "{", ":"}

\* normalizeToJSON(rawData); scanOut is its out when the scan loop ends.
NormalizeToJSON ==
    /\ pc = "call"
    /\ pc' = "done"
    /\ op' = "normalizeToJSON"
    /\ scanOut' = quoteScan(rawData[2])
    /\ ret' = Str(normalizeToJSON(rawData[2]))
    /\ UNCHANGED <<rawData, nodeKey, literal, start, openArg>>

InitNormalizer == Setup({Text(t) : t \in TextsUpTo(ScanChars, MaxScan)}, {Undefined})

SpecNormalizer == InitNormalizer /\ [][NormalizeToJSON]_vars

\* ---- quoted runs, position-wise

\* The closing quote of the run that opens at position i: the first later
\* position that holds the same quote character with an even number of
\* backslashes right before it; 0 when the run is not terminated.
RunEnd(t, i) ==
    LET ends == {j \in (i + 1)..Len(t) : t[j] = t[i] /\ ~Escaped(t, i + 1, j)}
    IN IF ends = {} THEN 0 ELSE Least(ends)

\* The quoted runs of t from position p on, outside any run at p: each
\* <<quote, first, last, terminated>>.
RECURSIVE QuotedRuns(_, _)
QuotedRuns(t, p) ==
    IF p > Len(t) THEN <<>>
    ELSE IF t[p] \notin {SQ, DQ} THEN QuotedRuns(t, p + 1)
    ELSE IF RunEnd(t, p) = 0 THEN <<<<t[p], p, Len(t), FALSE>>>>
    ELSE <<<<t[p], p, RunEnd(t, p), TRUE>>>> \o QuotedRuns(t, RunEnd(t, p) + 1)

\* What the scan emits for position k of t, given the runs rs of t.
Emitted(t, rs, k) ==
    IF \E n \in 1..Len(rs) : rs[n][1] = SQ /\ (k = rs[n][2] \/ (rs[n][4] /\ k = rs[n][3]))
    THEN <<DQ>>                            \* the quotes of a single-quoted run
    ELSE IF \E n \in 1..Len(rs) : rs[n][1] = SQ /\ rs[n][2] < k /\ k <= rs[n][3]
    THEN LET r == rs[CHOOSE n \in 1..Len(rs) : rs[n][1] = SQ /\ rs[n][2] < k /\ k <= rs[n][3]]
         IN IF Escaped(t, r[2] + 1, k) THEN <<t[k]>>    \* second half of a pair
            ELSE IF t[k] = BS
                 THEN IF k + 1 <= Len(t) /\ t[k + 1] = SQ
                      THEN <<>>                         \* \' loses its backslash
                      ELSE <<BS>>                       \* any other pair keeps it
            ELSE IF t[k] = DQ THEN <<BS, DQ>>           \* a bare '"' is escaped
            ELSE <<t[k]>>
    ELSE <<t[k]>>                          \* double-quoted runs and the rest

RECURSIVE EmittedUpTo(_, _, _)
EmittedUpTo(t, rs, k) ==
    IF k = 0 THEN <<>> ELSE EmittedUpTo(t, rs, k - 1) \o Emitted(t, rs, k)

\* C9: the character scan turns every terminated single-quoted run into a
\* double-quoted string: its quotes become '"', a bare '"' becomes \", \'
\* becomes ', \" stays \", every other pair and character is copied; and
\* double-quoted runs and the text outside quotes are copied unchanged.
C9_QuoteScan ==
    (/\ pc = "done" /\ op = "normalizeToJSON"
     /\ \A n \in 1..Len(QuotedRuns(rawData[2], 1)) :
           QuotedRuns(rawData[2], 1)[n][1] = SQ => QuotedRuns(rawData[2], 1)[n][4])
        => scanOut = EmittedUpTo(rawData[2], QuotedRuns(rawData[2], 1), Len(rawData[2]))

\* C9's case: a terminated single-quoted run that holds a bare '"' and a \'.
C9_Witness ==
    /\ pc = "done" /\ op = "normalizeToJSON"
    /\ \E n \in 1..Len(QuotedRuns(rawData[2], 1)) :
          LET r == QuotedRuns(rawData[2], 1)[n] IN
          /\ r[1] = SQ /\ r[4]
          /\ \E k \in (r[2] + 1)..(r[3] - 1) :
                rawData[2][k] = DQ /\ ~Escaped(rawData[2], r[2] + 1, k)
          /\ \E k \in (r[2] + 1)..(r[3] - 1) :
                rawData[2][k] = SQ /\ Escaped(rawData[2], r[2] + 1, k)
    /\ scanOut = EmittedUpTo(rawData[2], QuotedRuns(rawData[2], 1), Len(rawData[2]))

=============================================================================
